---- MODULE Spec2Model ----
(***************************************************************************)
(* enclose.horse solver: the reachability/scoring oracle (solve,           *)
(* make_state_with_walls, find_candidate_walls, evaluate_walls) and the    *)
(* search strategies that call it, as state machines over small grids.     *)
(*                                                                         *)
(* Cells are the code's row-major indices 0 .. cols*rows-1, so the lists   *)
(* of a GameState are functions over that range.  An Optional[int] is the  *)
(* empty tuple (None) or a one-element tuple (the channel).  A map string  *)
(* is given as its lines, each a tuple of one-character strings.           *)
(***************************************************************************)
EXTENDS Integers, Sequences, FiniteSets, TLC

VARIABLES
    map_lines,      \* parse_map's map_string, as split into lines
    state,          \* the base GameState built by parse_map
    candidates,     \* find_candidate_walls(state), once computed
    walls,          \* the trial wall set of the last evaluate_walls call
    result,         \* the SolveResult of the last evaluate_walls call
    pc,             \* position of the caller or of the running solver
    strategy,       \* the solver that runs ("none": the oracle's caller)
    config,         \* the solver's arguments
    expired,        \* the solver's deadline has been seen to have passed
    num_walls,      \* min(state.budget, len(candidates))
    best_score,
    best_walls,
    iterations,
    current_walls,  \* simulated annealing: the current solution
    current_score,
    temp,           \* the temperature, as <<numerator, denominator>>
    restart,        \* the index of the running restart
    iter,           \* the index of the running iteration of the restart
    initial_max,    \* the largest score of a restart's initial solution so far
    stack,          \* smart exhaustive: the frames of the recursive search
    population,     \* genetic: the individuals of the running generation
    scored,         \* genetic: the (score, individual) pairs, best first
    new_pop,        \* genetic: the next generation being built
    gen,            \* genetic: the index of the running generation
    ret,            \* the BenchmarkResult returned
    error,          \* the exception raised
    searched,       \* history: the wall lists passed to search, in call order
    evaluated,      \* history: the (score, individual) pairs the genetic loop scored
    asp_score,      \* the score solver_asp.calculate_score gave the last trial
    chokepoints,    \* chokepoint_guided: the list find_chokepoints returned
    new_walls,      \* annealing: the neighbour of the running iteration
    new_score,      \* annealing: the neighbour's score
    run,            \* mega hybrid: the index of the running genetic + polish run
    run_best_score, \* mega hybrid: the best of the running run
    run_best_walls

oracleVars == <<map_lines, state, candidates, walls, result>>

runVars ==
    <<strategy, config, expired, num_walls, best_score, best_walls, iterations,
      current_walls, current_score, temp, restart, iter, initial_max, stack,
      population, scored, new_pop, gen, ret, error>>

\* the locals of the annealing loop
saVars == <<current_walls, current_score, temp, restart, iter, initial_max>>

\* the locals of the genetic loop
genVars == <<population, scored, new_pop, gen>>

\* what a run has done so far, the other backend's score, and the chokepoint
\* list; only solve_chokepoint_guided reads the last, the rest is read by none
histVars == <<searched, evaluated, asp_score, chokepoints>>

\* the neighbour an annealing loop tries, and the locals of a mega-hybrid run
loopVars == <<new_walls, new_score, run, run_best_score, run_best_walls>>

vars == <<oracleVars, pc, runVars, histVars, loopVars>>

(***************************************************************************)
(* Bounds of the model.                                                    *)
(***************************************************************************)
MaxBudget == 2

\* simulated annealing runs with up to this many iterations per restart
MaxItersPerRestart == 2

\* solve_random_massive runs with up to this many iterations
MaxIterations == 2

\* solve_full_random_timed is followed for this many batches
MaxBatches == 2

None == <<>>

Some(ch) == <<ch>>

\* ---------------------------------------------------------------- helpers

Max(S) == CHOOSE x \in S : \A y \in S : y <= x

Min(S) == CHOOSE x \in S : \A y \in S : x <= y

RECURSIVE SortedSeq(_)
SortedSeq(S) == IF S = {} THEN <<>> ELSE <<Min(S)>> \o SortedSeq(S \ {Min(S)})

Range(s) == {s[i] : i \in DOMAIN s}

\* ------------------------------------------------------------- parse_map

\* ord(char) - ord('0') for a digit, ord(char) - ord('a') + 10 for a letter
Channel(char) ==
    CASE char = "0" -> 0
      [] char = "1" -> 1
      [] char = "a" -> 10
      [] char = "b" -> 11

IsPortalChar(char) == char \in {"0", "1", "a", "b"}

\* lines[row][col] if col < len(lines[row]) else '.'
CharAt(lines, cols, idx) ==
    LET row == idx \div cols
        col == idx % cols
    IN  IF col < Len(lines[row + 1]) THEN lines[row + 1][col + 1] ELSE "."

\* the last 'H' in row-major order, -1 when the map has none
PlayerIdx(lines, cols, n) ==
    LET hs == {i \in 0 .. n - 1 : CharAt(lines, cols, i) = "H"}
    IN  IF hs = {} THEN -1 ELSE Max(hs)

parse_map(lines, budget) ==
    LET rows == Len(lines)
        cols == Len(lines[1])
        n == rows * cols
    IN  [cols |-> cols,
         rows |-> rows,
         terrain |-> [i \in 0 .. n - 1 |->
                        IF CharAt(lines, cols, i) = "~" THEN 1 ELSE 0],
         walls |-> [i \in 0 .. n - 1 |-> FALSE],
         cherries |-> [i \in 0 .. n - 1 |-> CharAt(lines, cols, i) = "C"],
         portals |-> [i \in 0 .. n - 1 |->
                        IF IsPortalChar(CharAt(lines, cols, i))
                        THEN Some(Channel(CharAt(lines, cols, i)))
                        ELSE None],
         player_idx |-> PlayerIdx(lines, cols, n),
         budget |-> budget]

Cells(st) == DOMAIN st.terrain

\* ----------------------------------------------------------------- solve

\* portal_map: channel -> the cells carrying it, in ascending index order
portal_map(st, ch) ==
    SortedSeq({i \in Cells(st) : st.portals[i] = Some(ch)})

\* on_edge without the last-row test
on_edge_no_last_row(st, current) ==
    LET col == current % st.cols
        row == current \div st.cols
    IN  col = 0 \/ col = st.cols - 1 \/ row = 0

\* col == 0 or col == cols - 1 or row == 0 or row == rows - 1
on_edge(st, current) ==
    LET col == current % st.cols
        row == current \div st.cols
    IN  col = 0 \/ col = st.cols - 1 \/ row = 0 \/ row = st.rows - 1

\* not state.walls[idx] and state.terrain[idx] != 1
passable(st, idx) == ~st.walls[idx] /\ st.terrain[idx] # 1

\* the in-grid orthogonal neighbours of current that pass the wall and water
\* test, in the code's order (-1,0), (1,0), (0,-1), (0,1)
step_targets(st, current) ==
    LET col == current % st.cols
        row == current \div st.cols
        offs == << <<-1, 0>>, <<1, 0>>, <<0, -1>>, <<0, 1>> >>
        ok(k) == LET nc == col + offs[k][1]
                     nr == row + offs[k][2]
                 IN  /\ 0 <= nc /\ nc < st.cols /\ 0 <= nr /\ nr < st.rows
                     /\ passable(st, nr * st.cols + nc)
        at(k) == (row + offs[k][2]) * st.cols + (col + offs[k][1])
        pick[k \in 0 .. 4] ==
            IF k = 0 THEN <<>>
            ELSE IF ok(k) THEN Append(pick[k - 1], at(k)) ELSE pick[k - 1]
    IN  pick[4]

\* state.portals[current]; a negative index counts from the end of the list
portal_of(st, current) ==
    st.portals[IF current < 0 THEN current + Cardinality(Cells(st)) ELSE current]

\* portal_exits that teleports to later cells of the channel only
portal_exits_forward(st, current) ==
    IF portal_of(st, current) = None THEN <<>>
    ELSE SelectSeq(portal_map(st, portal_of(st, current)[1]),
                   LAMBDA e : e > current /\ ~st.walls[e])

\* the other cells of current's channel that are not walled, in portal_map order
portal_exits(st, current) ==
    IF portal_of(st, current) = None THEN <<>>
    ELSE SelectSeq(portal_map(st, portal_of(st, current)[1]),
                   LAMBDA e : e # current /\ ~st.walls[e])

\* for each target in order: if idx not in visited: visited.add; queue.append
RECURSIVE visit_all(_, _, _)
visit_all(targets, visited, queue) ==
    IF targets = <<>> THEN [visited |-> visited, queue |-> queue]
    ELSE IF Head(targets) \in visited
         THEN visit_all(Tail(targets), visited, queue)
         ELSE visit_all(Tail(targets), visited \cup {Head(targets)},
                        Append(queue, Head(targets)))

\* a loop that stops at the first escape
keep_going_until_escape(queue, escaped) == queue # <<>> /\ ~escaped

\* `while queue:`
keep_going(queue, escaped) == queue # <<>>

\* one pass through the body of `while queue:`; s holds the loop's variables,
\* dequeues counts the popleft calls
bfs_step(st, s) ==
    IF ~keep_going(s.queue, s.escaped) THEN s
    ELSE LET current == Head(s.queue)
             hit == on_edge(st, current) /\ ~s.escaped
             a == visit_all(step_targets(st, current), s.visited, Tail(s.queue))
             b == visit_all(portal_exits(st, current), a.visited, a.queue)
         IN  [queue |-> b.queue, visited |-> b.visited,
              escaped |-> s.escaped \/ hit,
              escape_cell |-> IF hit THEN current ELSE s.escape_cell,
              dequeues |-> s.dequeues + 1]

\* up to n passes, the second half after the first, until the loop ends
RECURSIVE bfs_passes(_, _, _)
bfs_passes(st, s, n) ==
    IF n = 0 THEN s
    ELSE IF n = 1 THEN bfs_step(st, s)
    ELSE LET half == bfs_passes(st, s, n \div 2)
         IN  IF keep_going(half.queue, half.escaped)
             THEN bfs_passes(st, half, n - n \div 2)
             ELSE half

\* the passes the loop is followed for: twice the cell count and two more; a
\* loop that has not ended by then is left with a non-empty queue
pass_limit(st) == 2 * Cardinality(Cells(st)) + 2

\* the loop of solve
bfs(st, queue, visited, escaped, escape_cell, dequeues) ==
    bfs_passes(st, [queue |-> queue, visited |-> visited, escaped |-> escaped,
                    escape_cell |-> escape_cell, dequeues |-> dequeues],
               pass_limit(st))

\* a bonus of 1 per cherry
cherry_bonus_one(st, visited) ==
    Cardinality({c \in visited : st.cherries[c]})

\* sum(3 for c in visited if state.cherries[c])
cherry_bonus(st, visited) ==
    3 * Cardinality({c \in visited : st.cherries[c]})

wall_count(st) == Cardinality({i \in Cells(st) : st.walls[i]})

\* the SolveResult built from what the loop left in visited and escaped
solve_result(st, r) ==
    IF r.escaped
    THEN [wall_count |-> wall_count(st), enclosed_area |-> 0,
          cherry_bonus |-> 0, total_score |-> 0,
          visited |-> r.visited, escaped |-> TRUE, escape_path |-> <<>>]
    ELSE [wall_count |-> wall_count(st),
          enclosed_area |-> Cardinality(r.visited),
          cherry_bonus |-> cherry_bonus(st, r.visited),
          total_score |-> Cardinality(r.visited) + cherry_bonus(st, r.visited),
          visited |-> r.visited, escaped |-> FALSE, escape_path |-> <<>>]

solve(st) ==
    solve_result(st, bfs(st, <<st.player_idx>>, {st.player_idx}, FALSE, -1, 0))

\* the number of popleft calls of solve(st)
solve_dequeues(st) ==
    bfs(st, <<st.player_idx>>, {st.player_idx}, FALSE, -1, 0).dequeues

\* ------------------------------------------------- make_state_with_walls

\* new_walls rebuilt inside the loop: only the last index stays walled
make_state_with_walls_last(base, wall_indices) ==
    [base EXCEPT !.walls = [i \in DOMAIN base.walls |->
                              wall_indices # {} /\ i = Max(wall_indices)]]

\* new_walls = [False] * len(base.walls); new_walls[idx] = True for each idx;
\* the other fields are base's
make_state_with_walls(base, wall_indices) ==
    [base EXCEPT !.walls = [i \in DOMAIN base.walls |-> i \in wall_indices]]

\* new_walls = base.walls: the walls are written into base's own list
base_after_make_state_alias(base, wall_indices) ==
    [base EXCEPT !.walls = [i \in DOMAIN base.walls |->
                              base.walls[i] \/ i \in wall_indices]]

\* what the call leaves in base: it writes to the fresh new_walls list only
base_after_make_state(base, wall_indices) == base

\* -------------------------------------------------- find_candidate_walls

\* find_candidate_walls without the portal test
find_candidate_walls_portals(st) ==
    SelectSeq([k \in 1 .. Cardinality(Cells(st)) |-> k - 1],
              LAMBDA idx : /\ st.terrain[idx] = 0
                           /\ idx # st.player_idx
                           /\ ~st.cherries[idx])

find_candidate_walls(st) ==
    SelectSeq([k \in 1 .. Cardinality(Cells(st)) |-> k - 1],
              LAMBDA idx : /\ st.terrain[idx] = 0
                           /\ idx # st.player_idx
                           /\ ~st.cherries[idx]
                           /\ st.portals[idx] = None)

\* -------------------------------------------------------- evaluate_walls

evaluate_walls(st, wall_indices) ==
    solve(make_state_with_walls(st, wall_indices)).total_score

\* ------------------------------------------------------------ the inputs

\* the map rows the grids are built from, four columns wide
MapRows ==
    { <<"~", "~", "~", "~">>,
      <<".", ".", ".", ".">>,
      <<"~", "H", ".", "~">>,
      <<".", "H", "C", ".">>,
      <<"~", "H", "0", "~">>,
      <<"0", "~", ".", "1">>,
      <<"~", "C", "0", ".">>,
      <<".", "~", "~", "~">> }

HasStart(lines) ==
    \E r \in DOMAIN lines : \E c \in DOMAIN lines[r] : lines[r][c] = "H"

\* three-row maps with a start cell
Maps == {m \in [1 .. 3 -> MapRows] : HasStart(m)}

NoResult ==
    [wall_count |-> 0, enclosed_area |-> 0, cherry_bonus |-> 0, total_score |-> 0,
     visited |-> {}, escaped |-> FALSE, escape_path |-> <<>>]

\* the arguments of a solver call; a solver reads only its own
Config(total_iterations, iters, pop_size, generations) ==
    [total_iterations |-> total_iterations, iterations |-> iters,
     pop_size |-> pop_size, generations |-> generations]

NoConfig == Config(0, 0, 0, 0)

NoReturn == [name |-> "", score |-> 0, walls |-> <<>>, iterations |-> 0]

\* a solver's locals before it starts
Idle ==
    /\ expired = FALSE
    /\ num_walls = 0
    /\ best_score = 0
    /\ best_walls = <<>>
    /\ iterations = 0
    /\ current_walls = <<>>
    /\ current_score = 0
    /\ temp = <<0, 1>>
    /\ restart = 0
    /\ iter = 0
    /\ initial_max = 0
    /\ stack = <<>>
    /\ population = <<>>
    /\ scored = <<>>
    /\ new_pop = <<>>
    /\ gen = 0
    /\ ret = NoReturn
    /\ error = ""
    /\ searched = <<>>
    /\ evaluated = {}
    /\ asp_score = 0
    /\ chokepoints = <<>>
    /\ new_walls = <<>>
    /\ new_score = 0
    /\ run = 0
    /\ run_best_score = 0
    /\ run_best_walls = <<>>

\* the wall lists a caller may hand to make_state_with_walls: cell indices of
\* the grid, at most budget of them
TrialWalls(st) ==
    {w \in SUBSET Cells(st) : Cardinality(w) <= st.budget}

\* ---------------------------------------------------------- the oracle's
\* caller: parse the map, compute the candidates, evaluate trial wall sets

Init ==
    /\ map_lines \in Maps
    /\ \E b \in 0 .. MaxBudget : state = parse_map(map_lines, b)
    /\ candidates = <<>>
    /\ walls = {}
    /\ result = NoResult
    /\ pc = "parsed"
    /\ strategy = "none"
    /\ config = NoConfig
    /\ Idle

FindCandidates ==
    /\ candidates' = find_candidate_walls(state)
    /\ pc' = IF pc = "parsed" THEN "ready" ELSE pc
    /\ UNCHANGED <<map_lines, state, walls, result, runVars>>
    /\ UNCHANGED <<histVars, loopVars>>

\* a first trial: any wall list within the budget (random.sample, or the
\* empty list a search starts from)
EvaluateFresh ==
    /\ pc = "ready"
    /\ \E w \in TrialWalls(state) :
        /\ walls' = w
        /\ result' = solve(make_state_with_walls(state, w))
        /\ state' = base_after_make_state(state, w)
    /\ pc' = "evaluated"
    /\ UNCHANGED <<map_lines, candidates, runVars>>
    /\ UNCHANGED <<histVars, loopVars>>

\* a later trial: the last one with one cell added or one cell dropped, as
\* the searches step from trial to trial
EvaluateNeighbour ==
    /\ pc = "evaluated"
    /\ \E c \in Cells(state) :
        LET w == IF c \in walls THEN walls \ {c} ELSE walls \cup {c}
        IN  /\ w \in TrialWalls(state)
            /\ walls' = w
            /\ result' = solve(make_state_with_walls(state, w))
            /\ state' = base_after_make_state(state, w)
    /\ UNCHANGED <<map_lines, candidates, pc, runVars>>
    /\ UNCHANGED <<histVars, loopVars>>

Next == FindCandidates \/ EvaluateFresh \/ EvaluateNeighbour

Spec == Init /\ [][Next]_vars

\* ------------------------------------------- parse_map on any map string

\* every three-row map, with no start cell, one, or several
AnyMaps == [1 .. 3 -> MapRows]

\* no GameState yet
NoGrid ==
    [cols |-> 0, rows |-> 0, terrain |-> <<>>, walls |-> <<>>, cherries |-> <<>>,
     portals |-> <<>>, player_idx |-> -1, budget |-> 0]

PM_Init ==
    /\ map_lines \in AnyMaps
    /\ state = NoGrid
    /\ candidates = <<>>
    /\ walls = {}
    /\ result = NoResult
    /\ pc = "unparsed"
    /\ strategy = "none"
    /\ config = NoConfig
    /\ Idle

\* line 962: parse_map has no raise statement and returns for every string
PM_Parse ==
    /\ pc = "unparsed"
    /\ \E b \in 0 .. MaxBudget : state' = parse_map(map_lines, b)
    /\ pc' = "parsed"
    /\ UNCHANGED <<map_lines, candidates, walls, result, runVars, histVars, loopVars>>

\* line 963
PM_Candidates == pc = "parsed" /\ FindCandidates

PM_Next == PM_Parse \/ PM_Candidates

SpecParse == PM_Init /\ [][PM_Next]_vars

\* the oracle's caller on every map parse_map returns a grid for
SpecAnyGrid == PM_Init /\ [][PM_Parse \/ Next]_vars

\* ------------------------------------------ solver_asp.py: the ASP backend

\* solver_asp.parse_map: a GameState without walls and portals; a portal
\* character falls to the else branch and becomes grass
asp_parse_map(lines, budget) ==
    LET rows == Len(lines)
        cols == Len(lines[1])
        n == rows * cols
    IN  [cols |-> cols,
         rows |-> rows,
         terrain |-> [i \in 0 .. n - 1 |->
                        IF CharAt(lines, cols, i) = "~" THEN 1 ELSE 0],
         cherries |-> [i \in 0 .. n - 1 |-> CharAt(lines, cols, i) = "C"],
         player_idx |-> PlayerIdx(lines, cols, n),
         budget |-> budget]

\* the neighbours of lines 206-212 that pass the wall and water test, in the
\* code's order (dr, dc) = (-1,0), (1,0), (0,-1), (0,1)
asp_neighbors(st, wall_set, current) ==
    LET row == current \div st.cols
        col == current % st.cols
        offs == << <<-1, 0>>, <<1, 0>>, <<0, -1>>, <<0, 1>> >>
        ok(k) == LET nr == row + offs[k][1]
                     nc == col + offs[k][2]
                 IN  /\ 0 <= nr /\ nr < st.rows /\ 0 <= nc /\ nc < st.cols
                     /\ (nr * st.cols + nc) \notin wall_set
                     /\ st.terrain[nr * st.cols + nc] # 1
        at(k) == (row + offs[k][1]) * st.cols + (col + offs[k][2])
        pick[k \in 0 .. 4] ==
            IF k = 0 THEN <<>>
            ELSE IF ok(k) THEN Append(pick[k - 1], at(k)) ELSE pick[k - 1]
    IN  pick[4]

\* row == 0 or row == rows - 1 or col == 0 or col == cols - 1
asp_on_boundary(st, current) ==
    \/ current \div st.cols = 0 \/ current \div st.cols = st.rows - 1
    \/ current % st.cols = 0 \/ current % st.cols = st.cols - 1

\* the loop of lines 198-214
RECURSIVE asp_bfs(_, _, _, _, _)
asp_bfs(st, wall_set, queue, visited, escaped) ==
    IF queue = <<>> THEN [visited |-> visited, escaped |-> escaped]
    ELSE LET a == visit_all(asp_neighbors(st, wall_set, Head(queue)),
                            visited, Tail(queue))
         IN  asp_bfs(st, wall_set, a.queue, a.visited,
                     escaped \/ asp_on_boundary(st, Head(queue)))

\* lines 216-222
asp_score_of(st, r) ==
    IF r.escaped THEN 0
    ELSE Cardinality(r.visited)
         + 3 * Cardinality({c \in r.visited : st.cherries[c]})

calculate_score(st, wall_list) ==
    asp_score_of(st, asp_bfs(st, wall_list, <<st.player_idx>>,
                             {st.player_idx}, FALSE))

\* a map parsed by both backends
AS_Init ==
    /\ map_lines \in Maps
    /\ \E b \in 0 .. MaxBudget : state = parse_map(map_lines, b)
    /\ candidates = <<>>
    /\ walls = {}
    /\ result = NoResult
    /\ pc = "asp_parsed"
    /\ strategy = "none"
    /\ config = NoConfig
    /\ Idle

\* one wall set scored by both: solver_asp.py line 172, solver.py line 140
AS_Score ==
    /\ pc = "asp_parsed"
    /\ \E w \in TrialWalls(state) :
        /\ walls' = w
        /\ result' = solve(make_state_with_walls(state, w))
        /\ asp_score' = calculate_score(asp_parse_map(map_lines, state.budget), w)
    /\ pc' = "asp_scored"
    /\ UNCHANGED <<map_lines, state, candidates, runVars, searched, evaluated,
                   chokepoints>>
    /\ UNCHANGED loopVars

SpecASP == AS_Init /\ [][AS_Score]_vars

\* ============================================================ the solvers

\* the maps the solvers are run on
StrategyMaps ==
    { << <<"~", "~", "~">>, <<"~", "H", "~">>, <<"~", "~", "~">> >>,
      << <<"~", "~", "~", "~">>, <<"~", "H", ".", "~">>, <<"~", "~", "~", "~">> >>,
      << <<"~", "~", "~", "~">>, <<".", "H", ".", "~">>, <<"~", "~", "~", "~">> >>,
      << <<"~", ".", "~", "~">>, <<".", "H", "C", "~">>, <<"~", "~", "~", "~">> >>,
      << <<"~", "~", "~", "~">>, <<".", "H", ".", ".">>, <<"~", "~", "~", "~">> >>,
      << <<"~", "~", "~", "~">>, <<"~", "H", ".", ".">>, <<"~", "~", "~", "~">> >>,
      << <<"0", "~", "~", "~">>, <<"~", "H", "0", "~">>, <<"~", "~", "~", "~">> >> }

\* a solver called with `cfg` on a freshly parsed map
InitRun(name, cfgs) ==
    /\ map_lines \in StrategyMaps
    /\ \E b \in 0 .. MaxBudget : state = parse_map(map_lines, b)
    /\ candidates = <<>>
    /\ walls = {}
    /\ result = NoResult
    /\ pc = "start"
    /\ strategy = name
    /\ config \in cfgs
    /\ Idle

\* BenchmarkResult(name, score, walls, time, iterations), the time left out
BenchmarkResult(name, score, wall_list, iters) ==
    [name |-> name, score |-> score, walls |-> wall_list, iterations |-> iters]

min(a, b) == IF a < b THEN a ELSE b

\* s without its p-th element: list.pop(p - 1)
RemoveAt(s, p) == SubSeq(s, 1, p - 1) \o SubSeq(s, p + 1, Len(s))

\* random.choices(population, k = k): selections that may repeat a cell
Samples_with_replacement(S, k) == [1 .. k -> S]

\* random.sample(population, k): the k-element selections, in any order
RECURSIVE Samples(_, _)
Samples(S, k) ==
    IF k = 0 THEN {<<>>}
    ELSE UNION {{<<x>> \o t : t \in Samples(S \ {x}, k - 1)} : x \in S}

\* the updated (best_score, best_walls) after a trial scored `score`:
\* if score > best_score: best_score = score; best_walls = walls.copy()
better_of_stale_walls(score, wall_list, bscore, bwalls) ==
    IF score > bscore THEN <<score, bwalls>> ELSE <<bscore, bwalls>>

better_of(score, wall_list, bscore, bwalls) ==
    IF score > bscore THEN <<score, wall_list>> ELSE <<bscore, bwalls>>

\* ------------------------------------------------------- solve_sa_massive

num_restarts == 50

\* 100.0
sa_initial_temp == 100

\* total_iterations // num_restarts
iters_per_restart(total_iterations) == total_iterations \div num_restarts

\* temp *= cooling, with cooling = 1 - 4.0 / iters_per_restart
cooled(t, ipr) == <<t[1] * (ipr - 4), t[2] * ipr>>

\* temp > 0.001
above_floor(t) == t[1] * 1000 > t[2]

\* math.exp(delta / max(temp, 0.001)) == 0.0: the quotient is below -745
exp_is_zero(delta, t) ==
    IF above_floor(t) THEN delta * t[2] < -745 * t[1] ELSE delta * 1000 < -745

\* the rule without the floor: `delta > 0 or random.random() < exp(...)`
sa_accepts_unguarded(delta, t) ==
    IF delta >= 0 THEN {TRUE}
    ELSE IF exp_is_zero(delta, t) THEN {FALSE}
    ELSE {TRUE, FALSE}

\* the values `delta > 0 or (temp > 0.001 and random.random() < exp(...))`
\* can take: random.random() is any float of [0, 1)
sa_accepts(delta, t) ==
    IF delta > 0 THEN {TRUE}
    ELSE IF ~above_floor(t) THEN {FALSE}
    ELSE IF delta = 0 THEN {TRUE}
    ELSE IF exp_is_zero(delta, t) THEN {FALSE}
    ELSE {TRUE, FALSE}

\* `swaps` rounds of: if available and new_walls: pop a random element,
\* append a random available cell and remove it from available
RECURSIVE swap_walls(_, _, _)
swap_walls(nw, available, swaps) ==
    IF swaps = 0 \/ available = {} \/ nw = <<>> THEN {nw}
    ELSE UNION {swap_walls(Append(RemoveAt(nw, p), w),
                           available \ {w}, swaps - 1) :
                  p \in DOMAIN nw, w \in available}

\* the neighbours of current: 1, 2 or 3 swaps
sa_neighbours(cands, current) ==
    UNION {swap_walls(current, Range(cands) \ Range(current), k) : k \in 1 .. 3}

SATotals ==
    {q * num_restarts : q \in 0 .. MaxItersPerRestart} \cup {num_restarts - 1}

SA_Init ==
    InitRun("sa_massive",
            {Config(t, 0, 0, 0) : t \in SATotals})

\* lines 318-327
SA_Begin ==
    /\ strategy = "sa_massive" /\ pc = "start"
    /\ candidates' = find_candidate_walls(state)
    /\ num_walls' = min(state.budget, Len(candidates'))
    /\ IF candidates' = <<>>
       THEN /\ pc' = "done"
            /\ ret' = BenchmarkResult("SA 2M", 0, <<>>, 0)
       ELSE /\ pc' = "sa_restart"
            /\ ret' = ret
    /\ UNCHANGED <<map_lines, state, walls, result, strategy, config, expired,
                   best_score, best_walls, iterations, current_walls,
                   current_score, temp, restart, iter, initial_max, stack,
                   genVars, error>>
    /\ UNCHANGED <<histVars, loopVars>>

\* lines 329-338: the head of one restart
SA_Restart ==
    /\ strategy = "sa_massive" /\ pc = "sa_restart"
    /\ restart < num_restarts
    /\ \E cw \in Samples(Range(candidates), num_walls) :
        LET sc == evaluate_walls(state, Range(cw))
            b == better_of(sc, cw, best_score, best_walls)
        IN  /\ current_walls' = cw
            /\ current_score' = sc
            /\ best_score' = b[1]
            /\ best_walls' = b[2]
            /\ initial_max' = IF sc > initial_max THEN sc ELSE initial_max
    /\ temp' = <<sa_initial_temp, 1>>
    /\ iter' = 0
    /\ IF iters_per_restart(config.total_iterations) = 0
       THEN pc' = "raised" /\ error' = "ZeroDivisionError"
       ELSE pc' = "sa_iter" /\ error' = error
    /\ UNCHANGED <<oracleVars, strategy, config, expired, num_walls, iterations,
                   restart, stack, genVars, ret>>
    /\ UNCHANGED <<histVars, loopVars>>

\* lines 340-363: one iteration, and the step to the next restart after the last
SA_Iterate ==
    /\ strategy = "sa_massive" /\ pc = "sa_iter"
    /\ iter < iters_per_restart(config.total_iterations)
    /\ LET t == cooled(temp, iters_per_restart(config.total_iterations))
       IN  /\ temp' = t
           /\ \E nw \in sa_neighbours(candidates, current_walls) :
               LET sc == evaluate_walls(state, Range(nw))
                   delta == sc - current_score
               IN  /\ new_walls' = nw
                   /\ new_score' = sc
                   /\ \E accept \in sa_accepts(delta, t) :
                     IF accept
                     THEN LET b == better_of(sc, nw, best_score, best_walls)
                          IN  /\ current_walls' = nw
                              /\ current_score' = sc
                              /\ best_score' = b[1]
                              /\ best_walls' = b[2]
                     ELSE UNCHANGED <<current_walls, current_score,
                                      best_score, best_walls>>
    /\ IF iter + 1 = iters_per_restart(config.total_iterations)
       THEN pc' = "sa_restart" /\ restart' = restart + 1 /\ iter' = 0
       ELSE pc' = pc /\ restart' = restart /\ iter' = iter + 1
    /\ UNCHANGED <<oracleVars, strategy, config, expired, num_walls, iterations,
                   initial_max, stack, genVars, ret, error>>
    /\ UNCHANGED <<histVars, run, run_best_score, run_best_walls>>

\* line 366
SA_Return ==
    /\ strategy = "sa_massive" /\ pc = "sa_restart"
    /\ restart = num_restarts
    /\ pc' = "done"
    /\ ret' = BenchmarkResult("SA 2M iter", best_score, best_walls,
                              config.total_iterations)
    /\ UNCHANGED <<oracleVars, strategy, config, expired, num_walls, best_score,
                   best_walls, iterations, saVars, stack, genVars, error>>
    /\ UNCHANGED <<histVars, loopVars>>

SA_Next == SA_Begin \/ SA_Restart \/ SA_Iterate \/ SA_Return

SpecSA == SA_Init /\ [][SA_Next]_vars

\* --------------------------------------------------- solve_random_massive

RM_Init ==
    InitRun("random_massive", {Config(0, n, 0, 0) : n \in 0 .. MaxIterations})

\* lines 373-376
RM_Begin ==
    /\ strategy = "random_massive" /\ pc = "start"
    /\ candidates' = find_candidate_walls(state)
    /\ num_walls' = min(state.budget, Len(candidates'))
    /\ pc' = "rm_loop"
    /\ UNCHANGED <<map_lines, state, walls, result, strategy, config, expired,
                   best_score, best_walls, iterations, saVars, stack, genVars,
                   ret, error>>
    /\ UNCHANGED <<histVars, loopVars>>

\* lines 378-385: one iteration; iter is the loop's i
RM_Iterate ==
    /\ strategy = "random_massive" /\ pc = "rm_loop"
    /\ iter < config.iterations
    /\ \E w \in Samples(Range(candidates), num_walls) :
        LET b == better_of(evaluate_walls(state, Range(w)), w,
                           best_score, best_walls)
        IN  best_score' = b[1] /\ best_walls' = b[2]
    /\ iter' = iter + 1
    /\ UNCHANGED <<oracleVars, pc, strategy, config, expired, num_walls,
                   iterations, current_walls, current_score, temp, restart,
                   initial_max, stack, genVars, ret, error>>
    /\ UNCHANGED <<histVars, loopVars>>

\* line 387
RM_Return ==
    /\ strategy = "random_massive" /\ pc = "rm_loop"
    /\ iter = config.iterations
    /\ pc' = "done"
    /\ ret' = BenchmarkResult("Random 500K", best_score, best_walls,
                              config.iterations)
    /\ UNCHANGED <<oracleVars, strategy, config, expired, num_walls, best_score,
                   best_walls, iterations, saVars, stack, genVars, error>>
    /\ UNCHANGED <<histVars, loopVars>>

RM_Next == RM_Begin \/ RM_Iterate \/ RM_Return

SpecRandom == RM_Init /\ [][RM_Next]_vars

\* ------------------------------------------------ solve_full_random_timed

\* the length of one batch between two looks at the clock
batch_size == 10000

\* the (best_score, best_walls) a batch of samples can leave: the ones it
\* started with when no sample scored higher, or any sample that scored higher
batch_outcomes(st, cands, k, bscore, bwalls) ==
    LET S == Samples(Range(cands), k)
    IN  {<<bscore, bwalls>> : w \in {x \in S : evaluate_walls(st, Range(x)) <= bscore}}
        \cup {<<evaluate_walls(st, Range(w)), w>> :
                w \in {x \in S : evaluate_walls(st, Range(x)) > bscore}}

RT_Init == InitRun("full_random_timed", {NoConfig})

\* lines 394-398
RT_Begin ==
    /\ strategy = "full_random_timed" /\ pc = "start"
    /\ candidates' = find_candidate_walls(state)
    /\ num_walls' = min(state.budget, Len(candidates'))
    /\ pc' = "rt_loop"
    /\ UNCHANGED <<map_lines, state, walls, result, strategy, config, expired,
                   best_score, best_walls, iterations, saVars, stack, genVars,
                   ret, error>>
    /\ UNCHANGED <<histVars, loopVars>>

\* lines 400-408: the clock is short of the timeout, a batch of samples runs
RT_Batch ==
    /\ strategy = "full_random_timed" /\ pc = "rt_loop"
    /\ iterations < MaxBatches * batch_size
    /\ \E b \in batch_outcomes(state, candidates, num_walls, best_score, best_walls) :
        best_score' = b[1] /\ best_walls' = b[2]
    /\ iterations' = iterations + batch_size
    /\ UNCHANGED <<oracleVars, pc, strategy, config, expired, num_walls, saVars,
                   stack, genVars, ret, error>>
    /\ UNCHANGED <<histVars, loopVars>>

\* lines 400, 410: the clock has reached the timeout
RT_Return ==
    /\ strategy = "full_random_timed" /\ pc = "rt_loop"
    /\ pc' = "done"
    /\ expired' = TRUE
    /\ ret' = BenchmarkResult("Random timed", best_score, best_walls, iterations)
    /\ UNCHANGED <<oracleVars, strategy, config, num_walls, best_score,
                   best_walls, iterations, saVars, stack, genVars, error>>
    /\ UNCHANGED <<histVars, loopVars>>

RT_Next == RT_Begin \/ RT_Batch \/ RT_Return

SpecTimed == RT_Init /\ [][RT_Next]_vars

\* ------------------------------------------------- solve_smart_exhaustive

\* the candidate cells the agent reaches while it still escapes
find_escape_path_cells(st, cands, wall_list) ==
    LET r == solve(make_state_with_walls(st, Range(wall_list)))
    IN  IF ~r.escaped THEN {} ELSE r.visited \cap Range(cands)

\* every candidate of the slice, on an escape path or not
useful_candidates_unfiltered(cands, start_idx, escape_cells) ==
    SubSeq(cands, start_idx + 1, Len(cands))

\* the slice taken one place too far: candidates[start_idx + 1:]
useful_candidates_skip(cands, start_idx, escape_cells) ==
    SelectSeq(SubSeq(cands, start_idx + 2, Len(cands)),
              LAMBDA c : c \in escape_cells)

\* [c for c in candidates[start_idx:] if c in escape_cells]
useful_candidates(cands, start_idx, escape_cells) ==
    SelectSeq(SubSeq(cands, start_idx + 1, Len(cands)),
              LAMBDA c : c \in escape_cells)

\* the frontier left where it was: the next call starts at start_idx again
next_start_stays(cands, wall, start_idx) == start_idx

\* candidates.index(wall) + 1 if wall in candidates else start_idx
next_start(cands, wall, start_idx) ==
    IF wall \in Range(cands)
    THEN Min({p \in DOMAIN cands : cands[p] = wall})
    ELSE start_idx

\* a call of search that has not run yet
Call(wall_list, remaining_budget, start_idx) ==
    [walls |-> wall_list, remaining |-> remaining_budget,
     start_idx |-> start_idx, entered |-> FALSE, useful |-> <<>>]

Pop(s) == SubSeq(s, 1, Len(s) - 1)

Top(s) == s[Len(s)]

EX_Init == InitRun("smart_exhaustive", {NoConfig})

\* lines 194-197 and the call search([], state.budget, 0) of line 231
EX_Begin ==
    /\ strategy = "smart_exhaustive" /\ pc = "start"
    /\ candidates' = find_candidate_walls(state)
    /\ stack' = <<Call(<<>>, state.budget, 0)>>
    /\ pc' = "ex_search"
    /\ UNCHANGED <<map_lines, state, walls, result, strategy, config, expired,
                   num_walls, best_score, best_walls, iterations, saVars,
                   genVars, ret, error>>
    /\ searched' = <<<<>>>>
    /\ UNCHANGED <<evaluated, asp_score, chokepoints>>
    /\ UNCHANGED loopVars

\* lines 202-203: search finds the deadline passed, and returns
EX_Timeout ==
    /\ strategy = "smart_exhaustive" /\ pc = "ex_search"
    /\ stack # <<>> /\ ~Top(stack).entered
    /\ expired' = TRUE
    /\ stack' = Pop(stack)
    /\ UNCHANGED <<oracleVars, pc, strategy, config, num_walls, best_score,
                   best_walls, iterations, saVars, genVars, ret, error>>
    /\ UNCHANGED <<histVars, loopVars>>

\* lines 202-223: search runs up to its loop, or returns before it
EX_Enter ==
    /\ strategy = "smart_exhaustive" /\ pc = "ex_search"
    /\ stack # <<>> /\ ~Top(stack).entered
    /\ ~expired
    /\ LET f == Top(stack)
           b == better_of(evaluate_walls(state, Range(f.walls)), f.walls,
                          best_score, best_walls)
           escape_cells == find_escape_path_cells(state, candidates, f.walls)
       IN  /\ iterations' = iterations + 1
           /\ best_score' = b[1]
           /\ best_walls' = b[2]
           /\ IF f.remaining = 0 \/ escape_cells = {}
              THEN stack' = Pop(stack)
              ELSE stack' = [stack EXCEPT ![Len(stack)] =
                        [f EXCEPT !.entered = TRUE,
                                  !.useful = useful_candidates(candidates,
                                                 f.start_idx, escape_cells)]]
    /\ UNCHANGED <<oracleVars, pc, strategy, config, expired, num_walls, saVars,
                   genVars, ret, error>>
    /\ UNCHANGED <<histVars, loopVars>>

\* lines 225-229: the loop calls search for the next useful candidate, or ends
EX_Loop ==
    /\ strategy = "smart_exhaustive" /\ pc = "ex_search"
    /\ stack # <<>> /\ Top(stack).entered
    /\ LET f == Top(stack)
       IN  IF f.useful = <<>>
           THEN stack' = Pop(stack)
           ELSE stack' =
                  Append([stack EXCEPT ![Len(stack)].useful = Tail(f.useful)],
                         Call(Append(f.walls, Head(f.useful)), f.remaining - 1,
                              next_start(candidates, Head(f.useful), f.start_idx)))
    /\ UNCHANGED <<oracleVars, pc, strategy, config, expired, num_walls,
                   best_score, best_walls, iterations, saVars, genVars, ret,
                   error>>
    /\ searched' = IF Top(stack).useful = <<>> THEN searched
                   ELSE Append(searched,
                               Append(Top(stack).walls,
                                      Head(Top(stack).useful)))
    /\ UNCHANGED <<evaluated, asp_score, chokepoints>>
    /\ UNCHANGED loopVars

\* line 233
EX_Return ==
    /\ strategy = "smart_exhaustive" /\ pc = "ex_search"
    /\ stack = <<>>
    /\ pc' = "done"
    /\ ret' = BenchmarkResult("Smart Exhaustive", best_score, best_walls, iterations)
    /\ UNCHANGED <<oracleVars, strategy, config, expired, num_walls, best_score,
                   best_walls, iterations, saVars, stack, genVars, error>>
    /\ UNCHANGED <<histVars, loopVars>>

EX_Next == EX_Begin \/ EX_Timeout \/ EX_Enter \/ EX_Loop \/ EX_Return

SpecExhaustive == EX_Init /\ [][EX_Next]_vars

\* the search called on any of the three-row maps
EX_InitAnyMap ==
    /\ map_lines \in Maps
    /\ \E b \in 0 .. MaxBudget : state = parse_map(map_lines, b)
    /\ candidates = <<>>
    /\ walls = {}
    /\ result = NoResult
    /\ pc = "start"
    /\ strategy = "smart_exhaustive"
    /\ config = NoConfig
    /\ Idle

SpecExhaustiveAnyMap == EX_InitAnyMap /\ [][EX_Next]_vars

\* ------------------------------------------------------- find_chokepoints

\* the importance of a cell whose wall alone encloses the agent
enclosing_importance == 1000

\* a sort that puts the later of two equal keys first
RECURSIVE sort_by_importance_ties_reversed(_)
sort_by_importance_ties_reversed(pairs) ==
    IF pairs = <<>> THEN <<>>
    ELSE LET rest == sort_by_importance_ties_reversed(
                         SubSeq(pairs, 1, Len(pairs) - 1))
             x == pairs[Len(pairs)]
         IN  SelectSeq(rest, LAMBDA y : y[2] > x[2]) \o <<x>>
             \o SelectSeq(rest, LAMBDA y : y[2] <= x[2])

\* list.sort(key = importance, reverse = True): stable, larger keys first
RECURSIVE sort_by_importance(_)
sort_by_importance(pairs) ==
    IF pairs = <<>> THEN <<>>
    ELSE LET rest == sort_by_importance(SubSeq(pairs, 1, Len(pairs) - 1))
             x == pairs[Len(pairs)]
         IN  SelectSeq(rest, LAMBDA y : y[2] >= x[2]) \o <<x>>
             \o SelectSeq(rest, LAMBDA y : y[2] < x[2])

\* the (cell, importance) pair a candidate's test_result earns, or nothing
importance_entry(cell, baseline_area, test_result) ==
    IF ~test_result.escaped THEN << <<cell, enclosing_importance>> >>
    ELSE IF baseline_area - Cardinality(test_result.visited) > 0
         THEN << <<cell, baseline_area - Cardinality(test_result.visited)>> >>
         ELSE <<>>

chokepoint_entry(st, baseline_area, cell) ==
    importance_entry(cell, baseline_area,
                     solve(make_state_with_walls(st, {cell})))

RECURSIVE chokepoint_entries(_, _, _)
chokepoint_entries(st, baseline_area, cells) ==
    IF cells = <<>> THEN <<>>
    ELSE chokepoint_entry(st, baseline_area, Head(cells))
         \o chokepoint_entries(st, baseline_area, Tail(cells))

\* the chokepoints, given the baseline result
chokepoints_from(st, baseline) ==
    IF ~baseline.escaped THEN <<>>
    ELSE sort_by_importance(
             chokepoint_entries(st, Cardinality(baseline.visited),
                                find_candidate_walls(st)))

find_chokepoints(st) == chokepoints_from(st, solve(st))

\* ------------------------------------------------ solve_chokepoint_guided

\* pop_size = 200
choke_pop_size == 200

\* chokepoints[:30]
top_count == 30

\* random.randint(6, ...): the least number of seeded chokepoints
seed_low == 6

\* [c[0] for c in chokepoints[:30]]
\* [c[0] for c in chokepoints[:30]]
top_cells(ch) ==
    [k \in 1 .. min(top_count, Len(ch)) |-> ch[k][1]]

top_chokepoints(st) == top_cells(find_chokepoints(st))

\* the individuals one round of the seeding loop can build from n chokepoints
seeded_individuals(cands, top, k, n) ==
    UNION {{w \o rest :
              rest \in Samples(Range(cands) \ Range(w),
                               min(k - Len(w),
                                   Cardinality(Range(cands) \ Range(w))))} :
             w \in Samples(Range(top), n)}

\* random.randint(a, b) raises ValueError when a > b
randint_raises(a, b) == a > b

\* the individuals one round can build, n_from_choke being any of 6 .. high
seeding_round(cands, top, k) ==
    UNION {seeded_individuals(cands, top, k, n) :
             n \in seed_low .. min(k, Len(top))}

CH_Init == InitRun("chokepoint_guided", {NoConfig})

\* lines 668-684
CH_Begin ==
    /\ strategy = "chokepoint_guided" /\ pc = "start"
    /\ candidates' = find_candidate_walls(state)
    /\ num_walls' = min(state.budget, Len(candidates'))
    /\ chokepoints' = find_chokepoints(state)
    /\ population' = <<>>
    /\ pc' = "ch_seed"
    /\ UNCHANGED <<map_lines, state, walls, result, strategy, config, expired,
                   best_score, best_walls, iterations, saVars, stack, scored,
                   new_pop, gen, ret, error>>
    /\ UNCHANGED <<searched, evaluated, asp_score>>
    /\ UNCHANGED loopVars

\* lines 687-694: one round of the seeding loop; random.randint(a, b) raises
\* ValueError when a > b.  The model follows the solver to the end of seeding.
CH_Seed ==
    /\ strategy = "chokepoint_guided" /\ pc = "ch_seed"
    /\ Len(population) < choke_pop_size \div 2
    /\ IF randint_raises(seed_low,
                         min(num_walls, Len(top_cells(chokepoints))))
       THEN /\ pc' = "raised"
            /\ error' = "ValueError"
            /\ population' = population
       ELSE /\ \E w \in seeding_round(candidates, top_cells(chokepoints),
                                      num_walls) :
                 population' = Append(population, w)
            /\ pc' = IF Len(population) + 1 = choke_pop_size \div 2
                     THEN "ch_seeded" ELSE pc
            /\ error' = error
    /\ UNCHANGED <<oracleVars, strategy, config, expired, num_walls, best_score,
                   best_walls, iterations, saVars, stack, scored, new_pop, gen,
                   ret>>
    /\ UNCHANGED <<histVars, loopVars>>

CH_Next == CH_Begin \/ CH_Seed

SpecChokepoint == CH_Init /\ [][CH_Next]_vars

\* the length of the dead end of the long map
DeadEndLength == 1001

\* a map of three rows between water: an open cell on the left edge, the
\* horse, one open cell, and behind it a dead end of n cherry cells
DeadEndMap(n) ==
    << [k \in 1 .. n + 4 |-> "~"],
       [k \in 1 .. n + 4 |->
          IF k = 1 \/ k = 3 THEN "." ELSE IF k = 2 THEN "H"
          ELSE IF k = n + 4 THEN "~" ELSE "C"],
       [k \in 1 .. n + 4 |-> "~"] >>

\* solve_chokepoint_guided called on any three-row map or on a long one
CH_InitAnyMap ==
    /\ map_lines \in Maps \cup {DeadEndMap(n) : n \in {1, DeadEndLength}}
    /\ \E b \in 0 .. MaxBudget : state = parse_map(map_lines, b)
    /\ candidates = <<>>
    /\ walls = {}
    /\ result = NoResult
    /\ pc = "start"
    /\ strategy = "chokepoint_guided"
    /\ config = NoConfig
    /\ Idle

SpecChokepointAnyMap == CH_InitAnyMap /\ [][CH_Next]_vars

\* -------------------------------------------------- solve_genetic_massive

\* the population sizes and generation counts the solver is called with
MaxPopSize == 2
MaxGenerations == 2

\* random_individual(), line 248
random_individual(cands, k) == Samples(Range(cands), k)

\* mutate(ind, swaps), lines 250-257
RECURSIVE mutate(_, _, _)
mutate(ind, swaps, cands) ==
    IF swaps = 0 THEN {ind}
    ELSE LET available == Range(cands) \ Range(ind)
         IN  IF available # {} /\ ind # <<>>
             THEN UNION {mutate(Append(RemoveAt(ind, p), c), swaps - 1, cands) :
                           <<p, c>> \in (1 .. Len(ind)) \X available}
             ELSE mutate(ind, swaps - 1, cands)

\* no padding: the child is left as the union of the two halves
fill_child_unpadded(child, cands, k) == {child}

\* the while loop of crossover, lines 261-266
RECURSIVE fill_child(_, _, _)
fill_child(child, cands, k) ==
    IF Len(child) >= k THEN {child}
    ELSE LET available == Range(cands) \ Range(child)
         IN  IF available = {} THEN {child}
             ELSE UNION {fill_child(Append(child, c), cands, k) : c \in available}

\* crossover(p1, p2), lines 259-269; list(set(..)) leaves the order open
crossover(p1, p2, cands, k) ==
    UNION {UNION {UNION {IF Len(child) > k
                         THEN Samples(Range(child), k)
                         ELSE {child} :
                           child \in fill_child(half, cands, k)} :
                    half \in Samples(Range(h[1]) \cup Range(h[2]),
                                     Cardinality(Range(h[1]) \cup Range(h[2])))} :
             h \in Samples(Range(p1), Len(p1) \div 2)
                   \X Samples(Range(p2), Len(p2) \div 2)}

\* the individuals and best-so-far after the scoring loop, lines 276-285
RECURSIVE score_population(_, _, _, _)
score_population(st, pop, bscore, bwalls) ==
    IF pop = <<>> THEN [scored |-> <<>>, best |-> <<bscore, bwalls>>]
    ELSE LET score == evaluate_walls(st, Range(pop[1]))
             rest == score_population(st, SubSeq(pop, 2, Len(pop)),
                                      better_of(score, pop[1], bscore, bwalls)[1],
                                      better_of(score, pop[1], bscore, bwalls)[2])
         IN  [scored |-> << <<score, pop[1]>> >> \o rest.scored,
              best |-> rest.best]

\* scored.sort(key = score, reverse = True), line 287: stable
RECURSIVE sort_scored(_)
sort_scored(entries) ==
    IF entries = <<>> THEN <<>>
    ELSE LET rest == sort_scored(SubSeq(entries, 1, Len(entries) - 1))
             x == entries[Len(entries)]
         IN  SelectSeq(rest, LAMBDA y : y[1] >= x[1]) \o <<x>>
             \o SelectSeq(rest, LAMBDA y : y[1] < x[1])

\* the elite of line 290
elite_count(pop_size) == Max({1, pop_size \div 20})

elite(entries, pop_size) ==
    [k \in 1 .. min(elite_count(pop_size), Len(entries)) |-> entries[k][2]]

\* the parents a tournament of min(7, len(scored)) entries can elect,
\* lines 295-298: an entry wins when enough of the others score no more
tournament_size == 7

tournament_winners(entries) ==
    {entries[i][2] : i \in
        {i \in 1 .. Len(entries) :
            Cardinality({j \in 1 .. Len(entries) \ {i} :
                            entries[j][1] <= entries[i][1]})
                >= min(tournament_size, Len(entries)) - 1}}

\* the children of lines 300-302
max_swaps == 3

children(entries, cands, k) ==
    UNION {crossover(p[1], p[2], cands, k)
             \cup UNION {UNION {mutate(child, swaps, cands) :
                                  swaps \in 1 .. max_swaps} :
                           child \in crossover(p[1], p[2], cands, k)} :
             p \in tournament_winners(entries) \X tournament_winners(entries)}

\* lines 306-307: the last pop_size // 10 places are taken by immigrants
immigrant_count(pop_size) == pop_size \div 10

\* the immigrants written from the head: new_pop[i] in place of new_pop[-(i+1)]
with_immigrants_at_head(pop, pop_size, cands, k) ==
    {[i \in 1 .. Len(pop) |->
        IF i <= immigrant_count(pop_size) THEN imm[i] ELSE pop[i]] :
       imm \in [1 .. immigrant_count(pop_size) -> random_individual(cands, k)]}

with_immigrants(pop, pop_size, cands, k) ==
    {[i \in 1 .. Len(pop) |->
        IF i > Len(pop) - immigrant_count(pop_size)
        THEN imm[Len(pop) - i + 1]
        ELSE pop[i]] :
       imm \in [1 .. immigrant_count(pop_size) -> random_individual(cands, k)]}

GEN_Init ==
    InitRun("genetic_massive",
            {Config(0, 0, p, g) : p \in 0 .. MaxPopSize, g \in 0 .. MaxGenerations})

\* lines 240-273
GEN_Begin ==
    /\ strategy = "genetic_massive" /\ pc = "start"
    /\ candidates' = find_candidate_walls(state)
    /\ num_walls' = min(state.budget, Len(candidates'))
    /\ IF candidates' = <<>>
       THEN /\ pc' = "done"
            /\ ret' = BenchmarkResult("Genetic 5K", 0, <<>>, 0)
            /\ population' = population
       ELSE /\ pc' = "gen_loop"
            /\ ret' = ret
            /\ population' \in [1 .. config.pop_size ->
                                  random_individual(candidates', num_walls')]
    /\ UNCHANGED <<map_lines, state, walls, result, strategy, config, expired,
                   best_score, best_walls, iterations, saVars, stack, scored,
                   new_pop, gen, error>>
    /\ UNCHANGED <<histVars, loopVars>>

\* lines 275-292: score the population, sort it, keep the elite
GEN_Evaluate ==
    /\ strategy = "genetic_massive" /\ pc = "gen_loop"
    /\ gen < config.generations
    /\ LET sp == score_population(state, population, best_score, best_walls)
       IN  /\ scored' = sort_scored(sp.scored)
           /\ best_score' = sp.best[1]
           /\ best_walls' = sp.best[2]
           /\ new_pop' = elite(scored', config.pop_size)
    /\ iterations' = iterations + Len(population)
    /\ pc' = "gen_breed"
    /\ UNCHANGED <<oracleVars, strategy, config, expired, num_walls, saVars,
                   stack, population, gen, ret, error>>
    /\ evaluated' = evaluated \cup Range(scored')
    /\ UNCHANGED <<searched, asp_score, chokepoints>>
    /\ UNCHANGED loopVars

\* lines 293-303: one child
GEN_Child ==
    /\ strategy = "genetic_massive" /\ pc = "gen_breed"
    /\ Len(new_pop) < config.pop_size
    /\ \E child \in children(scored, candidates, num_walls) :
          new_pop' = Append(new_pop, child)
    /\ UNCHANGED <<oracleVars, pc, strategy, config, expired, num_walls,
                   best_score, best_walls, iterations, saVars, stack,
                   population, scored, gen, ret, error>>
    /\ UNCHANGED <<histVars, loopVars>>

\* lines 305-309: immigrants, and the next generation
GEN_NextGen ==
    /\ strategy = "genetic_massive" /\ pc = "gen_breed"
    /\ Len(new_pop) >= config.pop_size
    /\ population' \in with_immigrants(new_pop, config.pop_size,
                                        candidates, num_walls)
    /\ gen' = gen + 1
    /\ pc' = "gen_loop"
    /\ UNCHANGED <<oracleVars, strategy, config, expired, num_walls, best_score,
                   best_walls, iterations, saVars, stack, scored, new_pop, ret,
                   error>>
    /\ UNCHANGED <<histVars, loopVars>>

\* line 311
GEN_Return ==
    /\ strategy = "genetic_massive" /\ pc = "gen_loop"
    /\ gen = config.generations
    /\ pc' = "done"
    /\ ret' = BenchmarkResult("Genetic 5K gen", best_score, best_walls, iterations)
    /\ UNCHANGED <<oracleVars, strategy, config, expired, num_walls, best_score,
                   best_walls, iterations, saVars, stack, genVars, error>>
    /\ UNCHANGED <<histVars, loopVars>>

GEN_Next == GEN_Begin \/ GEN_Evaluate \/ GEN_Child \/ GEN_NextGen \/ GEN_Return

SpecGenetic == GEN_Init /\ [][GEN_Next]_vars

\* the smallest population that has an immigrant (pop_size // 10 = 1)
ImmigrantPopSize == 10

\* one generation on a map with two candidates of different worth, with
\* populations small and large enough for immigrants
GEN_InitLarge ==
    /\ map_lines = << <<"~", "~", "~", "~">>, <<"~", "H", ".", ".">>,
                      <<"~", "~", "~", "~">> >>
    /\ state = parse_map(map_lines, 1)
    /\ candidates = <<>>
    /\ walls = {}
    /\ result = NoResult
    /\ pc = "start"
    /\ strategy = "genetic_massive"
    /\ config \in {Config(0, 0, p, 1) : p \in {1, 2, ImmigrantPopSize}}
    /\ Idle

SpecGeneticLarge == GEN_InitLarge /\ [][GEN_Next]_vars

\* the small runs on every map and the runs with immigrants together
SpecGeneticAll == (GEN_Init \/ GEN_InitLarge) /\ [][GEN_Next]_vars

\* ------------------------------------------------ solve_hybrid_aggressive

\* the polish loop runs up to this many iterations (500000 in the source)
MaxPolishIters == 2

\* 50.0
polish_initial_temp == 50

\* the values `delta > 0 or (temp > 0.001 and random.random() <
\* math.exp(delta / max(temp, 0.001)))` can take in the polish loop, where
\* temp is 50.0 * 0.99999^(i + 1): within the 500000 iterations of the loop
\* temp stays above 0.33, so the guard temp > 0.001 holds and the exponent of
\* a delta above -245 stays above -745, where exp is in (0, 1]
polish_accepts(delta) ==
    IF delta >= 0 THEN {TRUE} ELSE {TRUE, FALSE}

\* the genetic phase is called with the largest population and generation
\* count of the model (200 and 2000 in the source)
HY_Init ==
    InitRun("hybrid_aggressive", {Config(0, 0, MaxPopSize, MaxGenerations)})

\* lines 417-423: the call of solve_genetic_massive
HY_Begin ==
    /\ strategy = "hybrid_aggressive" /\ pc = "start"
    /\ candidates' = find_candidate_walls(state)
    /\ num_walls' = min(state.budget, Len(candidates'))
    /\ stack' = <<"solve_hybrid_aggressive">>
    /\ strategy' = "genetic_massive"
    /\ UNCHANGED <<map_lines, state, walls, result, pc, config, expired,
                   best_score, best_walls, iterations, saVars, genVars, ret,
                   error>>
    /\ UNCHANGED <<histVars, loopVars>>

\* lines 424-431: the genetic result becomes the start of the polish loop
HY_Polish ==
    /\ strategy = "genetic_massive" /\ pc = "done"
    /\ stack = <<"solve_hybrid_aggressive">>
    /\ stack' = <<>>
    /\ strategy' = "hybrid_aggressive"
    /\ best_score' = ret.score
    /\ best_walls' = ret.walls
    /\ current_walls' = ret.walls
    /\ current_score' = ret.score
    /\ temp' = <<polish_initial_temp, 1>>
    /\ iter' = 0
    /\ pc' = "hy_polish"
    /\ UNCHANGED <<oracleVars, config, expired, num_walls, iterations, restart,
                   initial_max, genVars, ret, error>>
    /\ UNCHANGED <<histVars, loopVars>>

\* lines 432-451: one iteration of the polish loop
HY_Iterate ==
    /\ strategy = "hybrid_aggressive" /\ pc = "hy_polish"
    /\ iter < MaxPolishIters
    /\ temp' = temp        \* the coolings applied are counted by iter
    /\ \E nw \in swap_walls(current_walls,
                             Range(candidates) \ Range(current_walls), 1) :
        LET sc == evaluate_walls(state, Range(nw))
        IN  /\ new_walls' = nw
            /\ new_score' = sc
            /\ \E accept \in polish_accepts(sc - current_score) :
              IF accept
              THEN /\ current_walls' = nw
                   /\ current_score' = sc
                   /\ best_score' = better_of(sc, nw, best_score, best_walls)[1]
                   /\ best_walls' = better_of(sc, nw, best_score, best_walls)[2]
              ELSE UNCHANGED <<current_walls, current_score, best_score,
                               best_walls>>
    /\ iter' = iter + 1
    /\ UNCHANGED <<oracleVars, pc, strategy, config, expired, num_walls,
                   iterations, restart, initial_max, stack, genVars, ret, error>>
    /\ UNCHANGED <<histVars, run, run_best_score, run_best_walls>>

\* lines 453-454
HY_Return ==
    /\ strategy = "hybrid_aggressive" /\ pc = "hy_polish"
    /\ iter = MaxPolishIters
    /\ pc' = "done"
    /\ ret' = BenchmarkResult("Hybrid (Gen+SA)", best_score, best_walls,
                              ret.iterations + MaxPolishIters)
    /\ UNCHANGED <<oracleVars, strategy, config, expired, num_walls, best_score,
                   best_walls, iterations, saVars, stack, genVars, error>>
    /\ UNCHANGED <<histVars, loopVars>>

HY_Next == HY_Begin \/ GEN_Next \/ HY_Polish \/ HY_Iterate \/ HY_Return

SpecHybrid == HY_Init /\ [][HY_Next]_vars

\* ------------------------------------------------------ solve_mega_hybrid

\* the number of genetic + polish runs (5 in the source)
MaxRuns == 1

\* 30.0
mega_initial_temp == 30

\* min(5, len(scored))
mega_tournament_size == 5

\* lines 496-499: the parents a tournament of min(5, len(scored)) entries can
\* elect
mega_winners(entries) ==
    {entries[i][2] : i \in
        {i \in 1 .. Len(entries) :
            Cardinality({j \in 1 .. Len(entries) \ {i} :
                            entries[j][1] <= entries[i][1]})
                >= min(mega_tournament_size, Len(entries)) - 1}}

\* lines 501-513: the crossover written out in the loop, and one swap for
\* half of the children
mega_children(entries, cands, k) ==
    UNION {crossover(p[1], p[2], cands, k)
             \cup UNION {mutate(child, 1, cands) :
                           child \in crossover(p[1], p[2], cands, k)} :
             p \in mega_winners(entries) \X mega_winners(entries)}

\* scored[:pop_size // 10], line 492
mega_elite(entries, pop_size) ==
    [k \in 1 .. min(pop_size \div 10, Len(entries)) |-> entries[k][2]]

\* [(evaluate_walls(state, ind), ind) for ind in population], line 484
mega_scored(st, pop) ==
    [i \in DOMAIN pop |-> <<evaluate_walls(st, Range(pop[i])), pop[i]>>]

\* the genetic phase runs with the largest population and generation count
\* of the model (200 and 2000 in the source)
MG_Init ==
    InitRun("mega_hybrid", {Config(0, 0, MaxPopSize, MaxGenerations)})

\* lines 467-472
MG_Begin ==
    /\ strategy = "mega_hybrid" /\ pc = "start"
    /\ candidates' = find_candidate_walls(state)
    /\ num_walls' = min(state.budget, Len(candidates'))
    /\ best_score' = 0
    /\ best_walls' = <<>>
    /\ iterations' = 0
    /\ run' = 0
    /\ pc' = "mg_run"
    /\ UNCHANGED <<map_lines, state, walls, result, strategy, config, expired,
                   saVars, stack, genVars, ret, error>>
    /\ UNCHANGED <<histVars, new_walls, new_score, run_best_score,
                   run_best_walls>>

\* lines 475-481: the head of one run
MG_RunBegin ==
    /\ strategy = "mega_hybrid" /\ pc = "mg_run"
    /\ run < MaxRuns
    /\ population' \in [1 .. config.pop_size ->
                          Samples(Range(candidates), num_walls)]
    /\ run_best_score' = 0
    /\ run_best_walls' = <<>>
    /\ gen' = 0
    /\ pc' = "mg_gen"
    /\ UNCHANGED <<oracleVars, strategy, config, expired, num_walls, best_score,
                   best_walls, iterations, saVars, stack, scored, new_pop, ret,
                   error>>
    /\ UNCHANGED <<histVars, new_walls, new_score, run>>

\* lines 483-493: score and sort the population, keep the run's best and the
\* elite
MG_Evaluate ==
    /\ strategy = "mega_hybrid" /\ pc = "mg_gen"
    /\ gen < config.generations
    /\ scored' = sort_scored(mega_scored(state, population))
    /\ iterations' = iterations + config.pop_size
    /\ IF scored'[1][1] > run_best_score
       THEN run_best_score' = scored'[1][1] /\ run_best_walls' = scored'[1][2]
       ELSE UNCHANGED <<run_best_score, run_best_walls>>
    /\ new_pop' = mega_elite(scored', config.pop_size)
    /\ pc' = "mg_breed"
    /\ UNCHANGED <<oracleVars, strategy, config, expired, num_walls, best_score,
                   best_walls, saVars, stack, population, gen, ret, error>>
    /\ UNCHANGED <<histVars, new_walls, new_score, run>>

\* lines 495-515: one child
MG_Child ==
    /\ strategy = "mega_hybrid" /\ pc = "mg_breed"
    /\ Len(new_pop) < config.pop_size
    /\ \E child \in mega_children(scored, candidates, num_walls) :
          new_pop' = Append(new_pop, child)
    /\ UNCHANGED <<oracleVars, pc, strategy, config, expired, num_walls,
                   best_score, best_walls, iterations, saVars, stack,
                   population, scored, gen, ret, error>>
    /\ UNCHANGED <<histVars, loopVars>>

\* lines 517-520: immigrants, and the next generation
MG_NextGen ==
    /\ strategy = "mega_hybrid" /\ pc = "mg_breed"
    /\ Len(new_pop) >= config.pop_size
    /\ population' \in with_immigrants(new_pop, config.pop_size,
                                        candidates, num_walls)
    /\ gen' = gen + 1
    /\ pc' = "mg_gen"
    /\ UNCHANGED <<oracleVars, strategy, config, expired, num_walls, best_score,
                   best_walls, iterations, saVars, stack, scored, new_pop, ret,
                   error>>
    /\ UNCHANGED <<histVars, loopVars>>

\* lines 525-528: the run's best becomes the start of the polish loop
MG_Polish ==
    /\ strategy = "mega_hybrid" /\ pc = "mg_gen"
    /\ gen = config.generations
    /\ current_walls' = run_best_walls
    /\ current_score' = run_best_score
    /\ temp' = <<mega_initial_temp, 1>>
    /\ iter' = 0
    /\ pc' = "mg_polish"
    /\ UNCHANGED <<oracleVars, strategy, config, expired, num_walls, best_score,
                   best_walls, iterations, restart, initial_max, stack, genVars,
                   ret, error>>
    /\ UNCHANGED <<histVars, loopVars>>

\* lines 530-548: one iteration of the polish loop; temp is
\* 30.0 * 0.99997^(i + 1), above 0.07 for the 200000 iterations of the loop
MG_Iterate ==
    /\ strategy = "mega_hybrid" /\ pc = "mg_polish"
    /\ iter < MaxPolishIters
    /\ iterations' = iterations + 1
    /\ temp' = temp        \* the coolings applied are counted by iter
    /\ \E nw \in swap_walls(current_walls,
                             Range(candidates) \ Range(current_walls), 1) :
        LET sc == evaluate_walls(state, Range(nw))
        IN  /\ new_walls' = nw
            /\ new_score' = sc
            /\ \E accept \in polish_accepts(sc - current_score) :
              IF accept
              THEN /\ current_walls' = nw
                   /\ current_score' = sc
                   /\ run_best_score' =
                        better_of(sc, nw, run_best_score, run_best_walls)[1]
                   /\ run_best_walls' =
                        better_of(sc, nw, run_best_score, run_best_walls)[2]
              ELSE UNCHANGED <<current_walls, current_score, run_best_score,
                               run_best_walls>>
    /\ iter' = iter + 1
    /\ UNCHANGED <<oracleVars, pc, strategy, config, expired, num_walls,
                   best_score, best_walls, restart, initial_max, stack, genVars,
                   ret, error>>
    /\ UNCHANGED <<histVars, run>>

\* lines 550-555: the end of one run
MG_RunEnd ==
    /\ strategy = "mega_hybrid" /\ pc = "mg_polish"
    /\ iter = MaxPolishIters
    /\ best_score' =
         better_of(run_best_score, run_best_walls, best_score, best_walls)[1]
    /\ best_walls' =
         better_of(run_best_score, run_best_walls, best_score, best_walls)[2]
    /\ run' = run + 1
    /\ pc' = "mg_run"
    /\ UNCHANGED <<oracleVars, strategy, config, expired, num_walls, iterations,
                   saVars, stack, genVars, ret, error>>
    /\ UNCHANGED <<histVars, new_walls, new_score, run_best_score,
                   run_best_walls>>

\* line 557
MG_Return ==
    /\ strategy = "mega_hybrid" /\ pc = "mg_run"
    /\ run = MaxRuns
    /\ pc' = "done"
    /\ ret' = BenchmarkResult("Mega Hybrid", best_score, best_walls, iterations)
    /\ UNCHANGED <<oracleVars, strategy, config, expired, num_walls, best_score,
                   best_walls, iterations, saVars, stack, genVars, error>>
    /\ UNCHANGED <<histVars, loopVars>>

MG_Next ==
    \/ MG_Begin \/ MG_RunBegin \/ MG_Evaluate \/ MG_Child \/ MG_NextGen
    \/ MG_Polish \/ MG_Iterate \/ MG_RunEnd \/ MG_Return

SpecMega == MG_Init /\ [][MG_Next]_vars

\* --------------------------------------------------- the annealing loops

AnnealingInit == SA_Init \/ HY_Init \/ MG_Init

AnnealingNext == SA_Next \/ HY_Next \/ MG_Next

SpecAnnealing == AnnealingInit /\ [][AnnealingNext]_vars

\* ----------------------------------------------------------- GreedyBuilder
\* The greedy strategy of the design (section 4.2) has no code in src/; it is
\* modelled from its description, on top of the oracle above.

\* evaluate(current + {c})
greedy_eval(st, current, c) ==
    solve(make_state_with_walls(st, Range(current) \cup {c}))

\* the remaining pool, in the enumeration order of the candidate set
remaining(cands, current) ==
    SelectSeq(cands, LAMBDA c : c \notin Range(current))

\* the pool's candidates that enclose when added to current
enclosing_of(st, current, pool) ==
    SelectSeq(pool, LAMBDA c : ~greedy_eval(st, current, c).escaped)

\* the first of the enclosing candidates with the highest totalScore
best_enclosing(st, current, enc) ==
    Head(SelectSeq(enc, LAMBDA c : \A d \in Range(enc) :
            greedy_eval(st, current, d).total_score
              <= greedy_eval(st, current, c).total_score))

\* the first of the candidates with the smallest resulting area
smallest_area(st, current, pool) ==
    Head(SelectSeq(pool, LAMBDA c : \A d \in Range(pool) :
            Cardinality(greedy_eval(st, current, d).visited)
              >= Cardinality(greedy_eval(st, current, c).visited)))

\* the first enclosing candidate, whatever its score
greedy_choice_first_enclosing(st, current, pool) ==
    IF enclosing_of(st, current, pool) # <<>>
    THEN Head(enclosing_of(st, current, pool))
    ELSE smallest_area(st, current, pool)

\* "prefer any c that yields escaped = false with the highest totalScore;
\* among non-enclosing candidates prefer the one minimizing resulting area"
greedy_choice(st, current, pool) ==
    IF enclosing_of(st, current, pool) # <<>>
    THEN best_enclosing(st, current, enclosing_of(st, current, pool))
    ELSE smallest_area(st, current, pool)

\* "if no candidate changes the outcome, stop": the chosen candidate neither
\* encloses nor changes the area
changes_outcome(st, current, c) ==
    \/ ~greedy_eval(st, current, c).escaped
    \/ Cardinality(greedy_eval(st, current, c).visited)
         # Cardinality(solve(make_state_with_walls(st, Range(current))).visited)

\* the loop goes on: |current| < budget, current escapes, and a candidate is
\* left that changes the outcome
greedy_continues(st, cands, current) ==
    /\ Len(current) < st.budget
    /\ solve(make_state_with_walls(st, Range(current))).escaped
    /\ remaining(cands, current) # <<>>
    /\ changes_outcome(st, current,
                       greedy_choice(st, current, remaining(cands, current)))

GR_Init ==
    /\ map_lines \in Maps
    /\ \E b \in 0 .. MaxBudget : state = parse_map(map_lines, b)
    /\ candidates = <<>>
    /\ walls = {}
    /\ result = NoResult
    /\ pc = "start"
    /\ strategy = "greedy"
    /\ config = NoConfig
    /\ Idle

\* current = {}
GR_Begin ==
    /\ strategy = "greedy" /\ pc = "start"
    /\ candidates' = find_candidate_walls(state)
    /\ current_walls' = <<>>
    /\ pc' = "gr_loop"
    /\ UNCHANGED <<map_lines, state, walls, result, strategy, config, expired,
                   num_walls, best_score, best_walls, iterations, current_score,
                   temp, restart, iter, initial_max, stack, genVars, ret, error>>
    /\ UNCHANGED <<histVars, loopVars>>

\* one iteration: commit the chosen candidate, and stop at once when it encloses
GR_Commit ==
    /\ strategy = "greedy" /\ pc = "gr_loop"
    /\ greedy_continues(state, candidates, current_walls)
    /\ current_walls' =
         Append(current_walls,
                greedy_choice(state, current_walls,
                              remaining(candidates, current_walls)))
    /\ pc' = IF solve(make_state_with_walls(state, Range(current_walls'))).escaped
             THEN "gr_loop"
             ELSE "gr_enclosed"
    /\ UNCHANGED <<oracleVars, strategy, config, expired, num_walls, best_score,
                   best_walls, iterations, current_score, temp, restart, iter,
                   initial_max, stack, genVars, ret, error>>
    /\ UNCHANGED <<histVars, loopVars>>

\* the terminal output (current, evaluate(current).totalScore)
GR_Stop ==
    /\ strategy = "greedy"
    /\ \/ pc = "gr_enclosed"
       \/ pc = "gr_loop" /\ ~greedy_continues(state, candidates, current_walls)
    /\ pc' = "done"
    /\ ret' = BenchmarkResult("Greedy",
                              evaluate_walls(state, Range(current_walls)),
                              current_walls, 0)
    /\ UNCHANGED <<oracleVars, strategy, config, expired, num_walls, best_score,
                   best_walls, iterations, saVars, stack, genVars, error>>
    /\ UNCHANGED <<histVars, loopVars>>

GR_Next == GR_Begin \/ GR_Commit \/ GR_Stop

SpecGreedy == GR_Init /\ [][GR_Next]_vars

\* ------------------------------------------- the strategies, side by side

StrategiesInit ==
    \/ EX_Init
    \/ GEN_Init
    \/ SA_Init
    \/ RM_Init
    \/ RT_Init
    \/ CH_Init

StrategiesNext ==
    \/ EX_Next
    \/ GEN_Next
    \/ SA_Next
    \/ RM_Next
    \/ RT_Next
    \/ CH_Next

SpecStrategies == StrategiesInit /\ [][StrategiesNext]_vars

\* ------------------------------------------------------------ the claims

\* the cells of the first and last row and column
BoundaryCells(st) ==
    {c \in Cells(st) : \/ c \div st.cols \in {0, st.rows - 1}
                       \/ c % st.cols \in {0, st.cols - 1}}

CherryCells(st) == {c \in Cells(st) : st.cherries[c]}

Adjacent(st, c, d) ==
    \/ c \div st.cols = d \div st.cols /\ (c % st.cols) - (d % st.cols) \in {-1, 1}
    \/ c % st.cols = d % st.cols /\ (c \div st.cols) - (d \div st.cols) \in {-1, 1}

SameChannel(st, c, d) ==
    c # d /\ st.portals[c] # None /\ st.portals[c] = st.portals[d]

\* the least set holding S and closed under a step or a portal link into a
\* cell that is neither water nor in w
RECURSIVE ReachFrom(_, _, _)
ReachFrom(st, w, S) ==
    LET T == S \cup {d \in Cells(st) :
                       /\ st.terrain[d] # 1
                       /\ d \notin w
                       /\ \E c \in S : Adjacent(st, c, d) \/ SameChannel(st, c, d)}
    IN  IF T = S THEN S ELSE ReachFrom(st, w, T)

\* C1: an escaping result scores 0; an enclosed one scores |visited| plus 3
\* per visited cherry, and its cherry_bonus is 3 per visited cherry.
C1_ScoringIdentity ==
    pc = "evaluated" =>
        /\ result.escaped => result.total_score = 0
        /\ ~result.escaped =>
            /\ result.total_score =
                 Cardinality(result.visited)
                 + 3 * Cardinality(result.visited \cap CherryCells(state))
            /\ result.cherry_bonus =
                 3 * Cardinality(result.visited \cap CherryCells(state))

C1_Witness ==
    /\ pc = "evaluated"
    /\ ~result.escaped
    /\ result.visited \cap CherryCells(state) # {}
    /\ result.total_score = 5

\* C2: escaped is true exactly when visited holds a cell of row 0, row
\* rows-1, column 0 or column cols-1 (the start cell counts).
C2_BoundaryRule ==
    pc = "evaluated" =>
        (result.escaped <=> result.visited \cap BoundaryCells(state) # {})

C2_Witness ==
    /\ pc = "evaluated"
    /\ result.escaped
    /\ state.player_idx \notin BoundaryCells(state)
    /\ \A c \in result.visited \cap BoundaryCells(state) :
          c \div state.cols = state.rows - 1

\* C3: whether or not the agent escapes, visited is exactly the set of cells
\* reachable from the start by orthogonal steps and portal links through
\* cells that are neither water nor walled.
C3_VisitedIsReachable ==
    pc = "evaluated" =>
        result.visited = ReachFrom(state, walls, {state.player_idx})

C3_Witness ==
    /\ pc = "evaluated"
    /\ result.escaped
    /\ state.player_idx \in BoundaryCells(state)
    /\ \E d \in result.visited :
          d \notin BoundaryCells(state) /\ state.portals[d] # None

\* C4: for wall sets w \subseteq w2 of candidate cells, when neither escapes
\* the enclosed area under w2 is at most the enclosed area under w.
C4_MoreWallsNoLargerArea ==
    (pc = "evaluated" /\ walls \subseteq Range(candidates)) =>
        \A w2 \in SUBSET Range(candidates) :
            (walls \subseteq w2 /\ Cardinality(w2) <= state.budget + 1) =>
                LET r2 == solve(make_state_with_walls(state, w2))
                IN  (~result.escaped /\ ~r2.escaped) =>
                        r2.enclosed_area <= result.enclosed_area

C4_Witness ==
    /\ pc = "evaluated"
    /\ walls \subseteq Range(candidates)
    /\ ~result.escaped
    /\ \E c \in Range(candidates) \ walls :
          LET r2 == solve(make_state_with_walls(state, walls \cup {c}))
          IN  ~r2.escaped /\ r2.enclosed_area < result.enclosed_area

\* the grid with the portal channels carried by a single cell removed
WithoutLoneChannels(st) ==
    [st EXCEPT !.portals =
        [i \in Cells(st) |->
            IF \E j \in Cells(st) : SameChannel(st, i, j)
            THEN st.portals[i] ELSE None]]

\* C5: two unwalled cells of one portal channel are both visited or both
\* not, whatever their distance; a channel carried by one cell adds no edge.
C5_PortalSymmetry ==
    pc = "evaluated" =>
        /\ \A a, b \in Cells(state) :
              (SameChannel(state, a, b) /\ a \notin walls /\ b \notin walls) =>
                  (a \in result.visited <=> b \in result.visited)
        /\ result.visited =
              solve(make_state_with_walls(WithoutLoneChannels(state), walls)).visited

C5_Witness ==
    /\ pc = "evaluated"
    /\ \E a, b \in result.visited :
          /\ SameChannel(state, a, b)
          /\ ~Adjacent(state, a, b)
          /\ \A c \in result.visited : ~Adjacent(state, c, b)
    /\ \E a \in result.visited :
          state.portals[a] # None /\ \A b \in Cells(state) : ~SameChannel(state, a, b)

\* C6: find_candidate_walls lists, in ascending index order, exactly the
\* grass cells other than the start that hold no cherry and no portal.
C6_CandidatePurity ==
    pc # "parsed" =>
        /\ Range(candidates) =
              {i \in Cells(state) : /\ state.terrain[i] = 0
                                    /\ i # state.player_idx
                                    /\ ~state.cherries[i]
                                    /\ state.portals[i] = None}
        /\ \A i, j \in DOMAIN candidates : i < j => candidates[i] < candidates[j]
        /\ candidates = find_candidate_walls(parse_map(map_lines, state.budget))

C6_Witness ==
    /\ pc = "evaluated"
    /\ candidates # <<>>
    /\ \E i, j, k \in Cells(state) \ Range(candidates) :
          /\ state.cherries[i]
          /\ state.portals[j] # None
          /\ state.terrain[k] = 1
    /\ state.player_idx \notin Range(candidates)

C8_SAReturnsNormally ==
    strategy = "sa_massive" =>
        /\ pc # "raised"
        /\ pc = "done" => ret.score >= initial_max

\* C9: with budget = 0 every strategy returns normally, without raising, and
\* the result has no walls and the score of the empty wall set.
C9_ZeroBudgetIsTrivial ==
    (strategy # "none" /\ state.budget = 0) =>
        /\ pc # "raised"
        /\ pc = "done" =>
              /\ ret.walls = <<>>
              /\ ret.score = evaluate_walls(state, {})

\* C10: however a strategy's run ends, the score it returns is the evaluation
\* of the walls it returns.
C10_ReturnedScoreIsEvaluation ==
    (strategy # "none" /\ pc = "done") =>
        ret.score = evaluate_walls(state, Range(ret.walls))

BudgetedSubsets(st) ==
    {W \in SUBSET Range(find_candidate_walls(st)) : Cardinality(W) <= st.budget}

\* C12: when solve_smart_exhaustive completes without the deadline firing, the
\* returned score is the maximum of evaluate over all subsets of the candidate
\* set with at most budget cells.
C12_ExhaustiveIsOptimal ==
    (strategy = "smart_exhaustive" /\ pc = "done" /\ ~expired) =>
        ret.score = Max({evaluate_walls(state, W) : W \in BudgetedSubsets(state)})

\* a completed search that returns two walls with a positive score on a grid
\* where some candidate is out of the horse's reach and so was pruned
C12_Witness ==
    /\ strategy = "smart_exhaustive" /\ pc = "done" /\ ~expired
    /\ Len(ret.walls) = 2 /\ ret.score > 0
    /\ Range(candidates) \ solve(state).visited # {}

\* the wall list is strictly increasing, which for cells of the candidate list
\* is the candidate enumeration order
StrictlyIncreasing(wall_list) ==
    \A i, j \in DOMAIN wall_list : i < j => wall_list[i] < wall_list[j]

\* C13: in solve_smart_exhaustive every wall list passed to search is strictly
\* increasing in candidate enumeration order, and no set of walls is passed to
\* search twice in a run.
C13_CombinationsNotPermutations ==
    strategy = "smart_exhaustive" =>
        /\ \A k \in DOMAIN searched : StrictlyIncreasing(searched[k])
        /\ \A k, l \in DOMAIN searched :
              k # l => Range(searched[k]) # Range(searched[l])

\* a run has passed a two-wall list to search after two one-wall lists, the
\* second cell of the pair being reachable from the start as well
C13_Witness ==
    /\ strategy = "smart_exhaustive"
    /\ \E k \in DOMAIN searched :
          /\ Len(searched[k]) = 2
          /\ \E l \in DOMAIN searched : searched[l] = <<searched[k][2]>>

\* the number of start cells the map string supplies
StartCount(lines) ==
    Cardinality({rc \in (1 .. Len(lines)) \X (1 .. Len(lines[1])) :
                   lines[rc[1]][rc[2]] = "H"})

\* C14: grid construction fails, returning no grid, when the input supplies
\* zero start cells or more than one; a grid that is returned has exactly one
\* start cell, at a valid cell index.
C14_OneStartOrFailure ==
    pc \in {"parsed", "ready"} =>
        /\ StartCount(map_lines) = 1
        /\ state.player_idx \in Cells(state)

\* C15: the ASP backend's calculate_score gives every map and every wall set
\* the total score the core solve gives them.
C15_BackendsScoreAlike ==
    pc = "asp_scored" => asp_score = result.total_score

\* placing a wall on the cell alone encloses the horse
EnclosesAlone(st, cell) == ~solve(make_state_with_walls(st, {cell})).escaped

\* C16: in the list find_chokepoints returns, every candidate whose single
\* placement encloses the agent has an importance strictly greater than that
\* of every non-enclosing candidate, and ranks ahead of it.
C16_EnclosingOutranksReduction ==
    (strategy = "chokepoint_guided" /\ pc # "start") =>
        \A i, j \in DOMAIN chokepoints :
            (/\ EnclosesAlone(state, chokepoints[i][1])
             /\ ~EnclosesAlone(state, chokepoints[j][1])) =>
                /\ chokepoints[i][2] > chokepoints[j][2]
                /\ i < j

\* the tracked best is at least every fitness computed so far
BestCoversEvaluated == \A e \in evaluated : best_score >= e[1]

\* C17 as claimed: in the genetic search the tracked best score is at least
\* the fitness of every individual evaluated so far, it never decreases, and
\* the returned wall set is an evaluated individual that achieved it.
C17_BestEverReturned ==
    /\ [](strategy = "genetic_massive" =>
            /\ BestCoversEvaluated
            /\ pc = "done" =>
                  /\ ret.score = best_score
                  /\ <<ret.score, ret.walls>> \in evaluated)
    /\ [][strategy = "genetic_massive" => best_score' >= best_score]_vars

\* C17 as amended: the tracked best score is at least the fitness of every
\* individual evaluated so far and never decreases, it is the score returned,
\* and when it is positive the returned wall set is an evaluated individual
\* that achieved it.
C17_BestEverReturnedIfPositive ==
    /\ [](strategy = "genetic_massive" =>
            /\ BestCoversEvaluated
            /\ pc = "done" =>
                  /\ ret.score = best_score
                  /\ ret.score > 0 => <<ret.score, ret.walls>> \in evaluated)
    /\ [][strategy = "genetic_massive" => best_score' >= best_score]_vars

\* a run of two generations returns a positive score although individuals
\* scored lower, some of them in the last generation scored
C17_Witness ==
    /\ strategy = "genetic_massive" /\ pc = "done" /\ gen = 2
    /\ ret.score > 0
    /\ \E k \in DOMAIN scored : scored[k][1] < ret.score
    /\ \E e \in evaluated : e[1] < ret.score /\ e \notin Range(scored)

\* the largest fitness in a population, 0 for an empty one
MaxFitness(pop) ==
    Max({0} \cup {evaluate_walls(state, Range(ind)) : ind \in Range(pop)})

\* C18: in the genetic search the top-ranked (elite) individuals of a
\* generation are present unchanged in the next generation's population:
\* immigrants at the tail never overwrite an elite, and the maximum fitness in
\* the population does not decrease from one generation to the next.
C18_ElitesSurvive ==
    [][(strategy = "genetic_massive" /\ pc = "gen_breed" /\ pc' = "gen_loop") =>
         /\ \A k \in DOMAIN scored :
               k <= Max({1, config.pop_size \div 20}) =>
                   population'[k] = scored[k][2]
         /\ MaxFitness(population') >= MaxFitness(population)]_vars

\* a generation of ten has been replaced: its best individual leads the next
\* one and an immigrant took the last place from a different child
C18_Witness ==
    /\ strategy = "genetic_massive" /\ pc = "gen_loop" /\ gen = 1
    /\ config.pop_size >= 10
    /\ population[1] = scored[1][2]
    /\ scored[1][1] > scored[Len(scored)][1]
    /\ population[Len(population)] # new_pop[Len(new_pop)]

\* the current solution of an annealing loop is a full selection: exactly
\* num_walls distinct candidate cells
FullSelection(sel) ==
    /\ Len(sel) = num_walls
    /\ Cardinality(Range(sel)) = Len(sel)
    /\ Range(sel) \subseteq Range(candidates)

\* C19: in every simulated-annealing phase, the polish phase of a hybrid
\* strategy included, the current solution holds exactly
\* num_walls = min(budget, |candidates|) distinct candidate cells at every
\* iteration.
C19_CurrentIsFullSelection ==
    pc \in {"sa_iter", "hy_polish"} => FullSelection(current_walls)

\* the candidates that enclose alone, and the best score one of them reaches
EnclosingCandidates == {c \in Range(candidates) : EnclosesAlone(state, c)}

BestSingleScore ==
    Max({evaluate_walls(state, {c}) : c \in EnclosingCandidates})

\* C20 as stated: on a grid that has a candidate cell whose placement alone
\* encloses the start with score S, the greedy builder with budget >= 1
\* selects that cell in its first iteration and terminates with exactly S.
C20_GreedyTakesEnclosingCell ==
    (strategy = "greedy" /\ pc = "done" /\ state.budget >= 1) =>
        \A c \in EnclosingCandidates :
            /\ ret.walls # <<>>
            /\ ret.walls[1] = c
            /\ ret.score = evaluate_walls(state, {c})

\* C20 amended: on a grid whose start escapes without walls and that has
\* candidates enclosing it alone, the greedy builder with budget >= 1 selects
\* in its first iteration the first, in enumeration order, of the enclosing
\* candidates with the highest score S, and terminates with that one wall
\* and exactly S.
C20_GreedyTakesBestEnclosingCell ==
    (/\ strategy = "greedy" /\ pc = "done" /\ state.budget >= 1
     /\ solve(state).escaped
     /\ EnclosingCandidates # {}) =>
        /\ ret.walls = <<Min({c \in EnclosingCandidates :
                                evaluate_walls(state, {c}) = BestSingleScore})>>
        /\ ret.score = BestSingleScore

\* the greedy builder finished on a grid with two enclosing candidates of
\* different worth, the lesser one first in the enumeration
C20_Witness ==
    /\ strategy = "greedy" /\ pc = "done" /\ state.budget >= 1
    /\ solve(state).escaped
    /\ \E c, d \in EnclosingCandidates :
          c < d /\ evaluate_walls(state, {c}) < evaluate_walls(state, {d})
    /\ Len(ret.walls) = 1
    /\ ret.score = BestSingleScore

Escapes(st, w) ==
    ReachFrom(st, w, {st.player_idx}) \cap BoundaryCells(st) # {}

\* the wall list of the latest call of search
LastSearched == searched[Len(searched)]

\* C22: in solve_smart_exhaustive a node is expanded only if its wall set
\* escapes and budget remains: for the wall list of every call of search (each
\* is the latest call in the state that follows it), every proper prefix is
\* an escaping wall set, each wall was inside the region reachable under the
\* prefix that precedes it, and the list is never longer than the budget.
C22_ExpandedOnlyWhileEscaping ==
    (strategy = "smart_exhaustive" /\ searched # <<>>) =>
        /\ Len(LastSearched) <= state.budget
        /\ \A k \in DOMAIN LastSearched :
              /\ Escapes(state, Range(SubSeq(LastSearched, 1, k - 1)))
              /\ LastSearched[k] \in
                    ReachFrom(state, Range(SubSeq(LastSearched, 1, k - 1)),
                              {state.player_idx})

\* search has been called with two walls, and the grid has a candidate the
\* horse cannot reach
C22_Witness ==
    /\ strategy = "smart_exhaustive" /\ pc = "done"
    /\ \E i \in DOMAIN searched : Len(searched[i]) = 2
    /\ Range(candidates) \ ReachFrom(state, {}, {state.player_idx}) # {}

\* a step is one iteration of an annealing loop
AnnealingStep ==
    \/ pc = "sa_iter"
    \/ pc = "hy_polish" /\ pc' = "hy_polish"
    \/ pc = "mg_polish" /\ pc' = "mg_polish"

\* the best score the running loop tracks: the run's best in the mega hybrid
TrackedBest == IF strategy = "mega_hybrid" THEN run_best_score ELSE best_score

\* the temperature is at or below the floor 0.001
AtOrBelowFloor(t) == t[1] * 1000 <= t[2]

LastTraversal ==
    bfs(make_state_with_walls(state, walls), <<state.player_idx>>,
        {state.player_idx}, FALSE, -1, 0)

\* C24: solve terminates on every grid and wall set: each cell is added to
\* visited, and hence enqueued, at most once, so the traversal performs at
\* most cellCount dequeues even when portal channels form cycles.
C24_AtMostCellCountDequeues ==
    pc = "evaluated" =>
        /\ LastTraversal.queue = <<>>
        /\ LastTraversal.dequeues = Cardinality(LastTraversal.visited)
        /\ LastTraversal.dequeues <= Cardinality(Cells(state))

\* ch lists exactly the cells of `reached`, once each, with importance >= 1,
\* larger importance first and equal importance in cell-index order
RanksExactly(ch, reached) ==
    /\ {ch[i][1] : i \in DOMAIN ch} = reached
    /\ Len(ch) = Cardinality(reached)
    /\ \A i \in DOMAIN ch : ch[i][2] >= 1
    /\ \A i, j \in DOMAIN ch :
          i < j => \/ ch[i][2] > ch[j][2]
                   \/ ch[i][2] = ch[j][2] /\ ch[i][1] < ch[j][1]

\* what find_chokepoints has to return, given the wall-free evaluation
ChokepointsAnswer(ch, baseline, cands) ==
    IF baseline.escaped
    THEN RanksExactly(ch, Range(cands) \cap baseline.visited)
    ELSE ch = <<>>

\* C25: when the wall-free grid escapes, find_chokepoints returns an entry for
\* exactly the candidate cells reachable in the wall-free evaluation (each
\* with importance >= 1), none for an unreachable candidate, sorted by
\* importance in non-increasing order with ties in candidate (cell-index)
\* order; when the wall-free grid is already enclosed it returns the empty
\* list.
C25_ChokepointsAreTheReachableCandidates ==
    (strategy = "chokepoint_guided" /\ pc # "start") =>
        ChokepointsAnswer(chokepoints, solve(state), find_candidate_walls(state))

\* the list has two entries of equal importance and the grid a candidate the
\* horse does not reach
C25_Witness ==
    /\ strategy = "chokepoint_guided" /\ pc # "start"
    /\ \E i, j \in DOMAIN chokepoints :
          i < j /\ chokepoints[i][2] = chokepoints[j][2]
    /\ Len(chokepoints) < Len(candidates)
====
